---- MODULE Spec2Model ----
(***************************************************************************)
(* The report harvesting pipeline of SQL/parsing: entrypoint (main.py),    *)
(* Parser (parser_stdlib.py) and the database import (import_to_db.py).    *)
(*                                                                         *)
(* Text is modelled as a sequence of tokens.  A token is a TLA+ string     *)
(* standing for a run of characters; the tokens "Q", "M" and "S" stand for *)
(* the single characters  "  ?  /  and PATH for the substring              *)
(* /upload/reports/oil_xls/ .  No other token contains  "  ?  or  / .      *)
(***************************************************************************)
EXTENDS Integers, Sequences, FiniteSets, TLC

\* ------------------------------------------------------------------ bounds

\* Number of listing pages of REPORTS_RANGE that the model fetches.
NumPages == 2

\* The rows of a sheet below its header, at most.
MaxRows == 2

\* The files of a directory of reports, at most.
MaxDocs == 2

\* The lines of a page handed to the extractor, at most.
MaxLines == 2

\* The ObjList nodes made for the linked list, at most.
MaxNodes == 3

\* The servers of the network, at most.
MaxServers == 2

\* The packages servers send, at most.
MaxPackages == 2

\* The side of the game field, at most.
MaxSize == 2

\* ------------------------------------------------------- program constants

\* max_workers of the ThreadPoolExecutor that collect_reports creates.
MaxWorkers == 10

\* HTTPStatus.OK
HTTP_OK == 200

\* A 2xx status other than 200, which urlopen returns without raising.
HTTP_NO_CONTENT == 204

\* REPORTS_RANGE = range(NumPages, 0, -1): the page numbers in issue order.
REPORTS_RANGE == [i \in 1..NumPages |-> NumPages + 1 - i]

Q == "Q"
M == "M"
S == "S"
PATH == "PATH"

\* Parser(site="https://spimex.com").site
Site == <<"https:", S, S, "spimex.com">>

\* ---------------------------------------------------------- text helpers

\* expression in line, for a one-token expression
Contains(line, tok) == \E i \in 1..Len(line) : line[i] = tok

\* str.split(sep)[0]: the text before the first sep (all of it without sep)
SplitFirst(s, sep) ==
  IF Contains(s, sep)
    THEN LET k == CHOOSE i \in 1..Len(s) :
                    s[i] = sep /\ \A j \in 1..(i - 1) : s[j] # sep
         IN SubSeq(s, 1, k - 1)
    ELSE s

\* url.split('/')[-1]: the text after the last '/'.  "/" ends the tokens S
\* and PATH and occurs in no other token.
IsSlash(tok) == tok \in {S, PATH}

SplitLast(s) ==
  IF \E i \in 1..Len(s) : IsSlash(s[i])
    THEN LET k == CHOOSE i \in 1..Len(s) :
                    IsSlash(s[i]) /\ \A j \in (i + 1)..Len(s) : ~IsSlash(s[j])
         IN SubSeq(s, k + 1, Len(s))
    ELSE s

\* re.search(r'href="([^"]+)"', item): the positions <<i, j>> of the leftmost
\* match, i at "href=" and j at the closing quote; <<0, 0>> when none.
\* [^"]+ is greedy but cannot cross a quote, so j is the first quote after
\* the opening one, and the group is not empty.
IsMatchAt(item, i) ==
  /\ i + 3 <= Len(item)
  /\ item[i] = "href="
  /\ item[i + 1] = Q
  /\ item[i + 2] # Q
  /\ \E j \in (i + 3)..Len(item) : item[j] = Q

re_search(item) ==
  IF \E i \in 1..Len(item) : IsMatchAt(item, i)
    THEN LET i == CHOOSE a \in 1..Len(item) :
                    IsMatchAt(item, a) /\ \A b \in 1..(a - 1) : ~IsMatchAt(item, b)
             j == CHOOSE a \in (i + 3)..Len(item) :
                    item[a] = Q /\ \A b \in (i + 3)..(a - 1) : item[b] # Q
         IN <<i, j>>
    ELSE <<0, 0>>

\* matched_url.group(1)
group1(item) == LET m == re_search(item) IN SubSeq(item, m[1] + 2, m[2] - 1)

\* A construction that keeps the query string.
construct_url_with_query(url, site_prefix) ==
  IF site_prefix THEN Site \o url ELSE url

\* Parser._construct_url
construct_url(url, site_prefix) ==
  IF site_prefix THEN Site \o SplitFirst(url, M) ELSE SplitFirst(url, M)

\* Parser.parse_by_expression (data is a list here: fetch_data returns one)
parse_by_expression(data, expression) ==
  SelectSeq(data, LAMBDA line : Contains(line, expression))

\* Parser.get_urls_from_retrieved_data
RECURSIVE get_urls_from_retrieved_data(_, _)
get_urls_from_retrieved_data(data, site_prefix) ==
  IF data = <<>> THEN <<>>
  ELSE LET item == Head(data)
           rest == get_urls_from_retrieved_data(Tail(data), site_prefix)
       IN IF re_search(item) # <<0, 0>>
            THEN <<construct_url(group1(item), site_prefix)>> \o rest
            ELSE rest

\* The body of fetch_and_parse_data after the page has been fetched.
urls_of_page(page) ==
  get_urls_from_retrieved_data(parse_by_expression(page, PATH), TRUE)

\* f"report_{url.split('/')[-1]}"
report_name(url) == <<"report_">> \o SplitLast(url)

\* ------------------------------------------------------------ the remote site

\* Lines of listing pages.
LineA == <<"<a ", "href=", Q, PATH, "a.xls", M, "x=1", Q, ">">>
LineCut == <<"<a ", "href=", Q, PATH, "cut.xls", Q, ">">>
LineGone == <<"<a ", "href=", Q, PATH, "gone.xls", Q, ">">>
LinePlain == <<"<p>", "no reports", "</p>">>

\* The page bodies the site may answer with (each a list of lines).
PageBodies ==
  { <<>>, <<LinePlain, LineA>>, <<LineA, LineCut>>, <<LineGone>> }

\* What urlopen(url) hands to fetch_data: it returns a response with a status
\* code and a body, or raises.  urlopen raises HTTPError for a 4xx/5xx status
\* and URLError when no connection is made; a connection dropped while the
\* status line is read raises RemoteDisconnected, a ConnectionError.  utf8
\* tells whether the body's bytes are valid utf-8.
Raised(exc) == [raised |-> exc, code |-> 0, body |-> <<>>, utf8 |-> TRUE]
Returned(code, body, utf8) ==
  [raised |-> "none", code |-> code, body |-> body, utf8 |-> utf8]

Responses ==
  { Raised("HTTPError"), Raised("URLError"), Raised("RemoteDisconnected") }
    \cup { Returned(HTTP_NO_CONTENT, <<>>, TRUE) }
    \cup { Returned(HTTP_OK, b, TRUE) : b \in PageBodies }
    \cup { Returned(HTTP_OK, <<>>, FALSE) }

\* Exceptions that are subclasses of ConnectionError.
IsConnectionError(exc) == exc \in {"ConnectionError", "RemoteDisconnected"}

\* How the transfer of a document ends, by the document the URL names:
\* "ok" (all bytes arrive), "cut" (the connection opens, the transfer stops
\* short: ContentTooShortError) or "gone" (HTTPError before any byte).
Transfer(url) ==
  LET seg == SplitLast(url)
  IN IF seg = <<"cut.xls">> THEN "cut"
     ELSE IF seg = <<"gone.xls">> THEN "gone"
     ELSE "ok"

\* ------------------------------------------------------------------- state

VARIABLES
  phase,      \* stage of entrypoint: Discovery, Download, Ingest, Completed, Failed
  stages,     \* the stages entered so far, in order
  error,      \* the exception that left entrypoint ("none" while there is none)
  fetch,      \* per issued page task: [st, resp, exc]
  fetchDone,  \* <<index, urls>> of the page tasks, in completion order
  result,     \* what the first gather returned: one list of URLs per page
  loopBusy,   \* index of the page task whose read() blocks the event loop, or 0
  tasks,      \* the collect_reports tasks: [url, name, st, exc, calls]
  firstFailed,\* index of the first collect_reports task to fail, or 0
  dirExists,  \* REPORTS_DIR exists
  files,      \* REPORTS_DIR: file name -> [url, complete, by]
  db,         \* how the database behaves in this run
  store,      \* the committed rows
  input,      \* the argument of a call made outside a run of entrypoint
  output,     \* the outcome of that call
  lst,        \* base_python: a LinkedList and the ObjList nodes made for it
  net,        \* base_python: the servers, the routers and Server.__assigned_ips
  pole        \* base_python: a GamePole

vars == <<phase, stages, error, fetch, fetchDone, result, loopBusy, tasks,
          firstFailed, dirExists, files, db, store, input, output, lst, net,
          pole>>

\* The objects of the programs of base_python, which no run of entrypoint
\* and no call of the parser touches.
base_python == <<lst, net, pole>>

\* Python's None.
None == "None"

NoObjects == lst = None /\ net = None /\ pole = None

\* The state of a run of entrypoint.
pipeline == <<phase, stages, error, fetch, fetchDone, result, loopBusy, tasks,
              firstFailed, dirExists, files, db, store>>

\* No call made yet: an outcome that no call has.
NoCall ==
  [exc |-> "no call", value |-> <<>>, item |-> [kind |-> "none", name |-> <<>>],
   cause |-> "none"]

NoFiles == [n \in {} |-> 0]

\* A file as urlretrieve leaves it: the document of url, written by task `by`
\* (0: by an earlier run), complete or cut short.
File(url, complete, by) == [url |-> url, complete |-> complete, by |-> by]

UrlA == Site \o <<PATH, "a.xls">>
UrlCut == Site \o <<PATH, "cut.xls">>

\* REPORTS_DIR when the run starts: absent, or left behind by a failed run.
InitialDisks ==
  { [dir |-> FALSE, files |-> NoFiles],
    [dir |-> TRUE, files |-> NoFiles],
    [dir |-> TRUE, files |-> (report_name(UrlA) :> File(UrlA, TRUE, 0))],
    [dir |-> TRUE, files |-> (report_name(UrlCut) :> File(UrlCut, FALSE, 0))] }

\* The database: reachable and sound, unreachable, or failing at commit.
Databases == {"ok", "down", "commit_fails"}

IdleFetch == [st |-> "idle", resp |-> Raised("none"), exc |-> "none"]

Init ==
  /\ phase = "Discovery"
  /\ stages = <<"Discovery">>
  /\ error = "none"
  /\ fetch = [i \in 1..NumPages |-> IdleFetch]
  /\ fetchDone = <<>>
  /\ result = <<>>
  /\ loopBusy = 0
  /\ tasks = <<>>
  /\ firstFailed = 0
  /\ \E d \in InitialDisks : dirExists = d.dir /\ files = d.files
  /\ db \in Databases
  /\ store = <<>>
  /\ input = NoCall
  /\ output = NoCall
  /\ NoObjects

\* --------------------------------------------------------------- Discovery

\* tqdm_asyncio.gather wraps every coroutine in a task; a task runs on the
\* event loop up to its first await.  fetch_data: the task submits urlopen to
\* a pool of its own and awaits it.
fetch_data_start(i) ==
  /\ phase = "Discovery"
  /\ loopBusy = 0
  /\ fetch[i].st = "idle"
  /\ fetch' = [fetch EXCEPT ![i].st = "opening"]
  /\ UNCHANGED <<phase, stages, error, fetchDone, result, loopBusy, tasks,
                 firstFailed, dirExists, files, db, store, input, output, base_python>>

\* A pool whose threads are given up once the run has failed.
worker_runs_until_failure(ph) == ph # "Failed"

\* `with ThreadPoolExecutor() as pool` leaves the block through
\* shutdown(wait=True): the thread that runs the submitted call is waited
\* for, whatever has become of the run and of the task that awaits it.
worker_runs(ph) == TRUE

\* The worker thread: urlopen(url) returns or raises.
urlopen_done(i, r) ==
  /\ worker_runs(phase)
  /\ fetch[i].st = "opening"
  /\ fetch' = [fetch EXCEPT ![i].st = "opened", ![i].resp = r]
  /\ UNCHANGED <<phase, stages, error, fetchDone, result, loopBusy, tasks,
                 firstFailed, dirExists, files, db, store, input, output, base_python>>

\* The exception fetch_data raises for what urlopen handed back ("none": it
\* goes on to read the body).  Only ConnectionError is caught and wrapped.
fetch_data_exc(r) ==
  IF r.raised # "none"
    THEN IF IsConnectionError(r.raised) THEN "ParserError" ELSE r.raised
  ELSE IF r.code # HTTP_OK THEN "ParserError"
  ELSE "none"

AllFetchStarted == \A j \in 1..NumPages : fetch[j].st # "idle"

\* The task resumes on the event loop with urlopen's outcome: it raises, or
\* calls response.read() on the event loop's own thread.
fetch_data_resume(i) ==
  /\ phase = "Discovery"
  /\ loopBusy = 0
  /\ AllFetchStarted
  /\ fetch[i].st = "opened"
  /\ LET e == fetch_data_exc(fetch[i].resp)
     IN IF e # "none"
          THEN /\ fetch' = [fetch EXCEPT ![i].st = "err", ![i].exc = e]
               /\ fetchDone' = Append(fetchDone, <<i, <<>>>>)
               /\ UNCHANGED loopBusy
          ELSE /\ fetch' = [fetch EXCEPT ![i].st = "reading"]
               /\ loopBusy' = i
               /\ UNCHANGED fetchDone
  /\ UNCHANGED <<phase, stages, error, result, tasks, firstFailed, dirExists,
                 files, db, store, input, output, base_python>>

\* response.read().decode(encoding).splitlines() returns, then the rest of
\* fetch_and_parse_data runs without suspending.
fetch_and_parse_data_finish(i) ==
  /\ phase = "Discovery"
  /\ loopBusy = i
  /\ fetch[i].st = "reading"
  /\ loopBusy' = 0
  /\ IF ~fetch[i].resp.utf8
       THEN /\ fetch' = [fetch EXCEPT ![i].st = "err", ![i].exc = "UnicodeDecodeError"]
            /\ fetchDone' = Append(fetchDone, <<i, <<>>>>)
       ELSE /\ fetch' = [fetch EXCEPT ![i].st = "ok"]
            /\ fetchDone' = Append(fetchDone, <<i, urls_of_page(fetch[i].resp.body)>>)
  /\ UNCHANGED <<phase, stages, error, result, tasks, firstFailed, dirExists,
                 files, db, store, input, output, base_python>>

\* tqdm_asyncio.gather: the awaitables are consumed in completion order, an
\* exception is raised at the first one that failed, and the results come
\* back as [i for _, i in sorted(res)], that is by index.
FailedIn(done) == { k \in 1..Len(done) : fetch[done[k][1]].st = "err" }

gather_raises(done) == FailedIn(done) # {}

gather_exception(done) ==
  LET k == CHOOSE a \in FailedIn(done) : \A b \in FailedIn(done) : a <= b
  IN fetch[done[k][1]].exc

\* gather with return_exceptions=True: failures are returned, not raised.
gather_returns_exceptions(done, n) == Len(done) = n

gather_returns(done, n) == Len(done) = n /\ FailedIn(done) = {}

\* The results as they completed, not sorted.
completion_order(res) == res

\* sorted(res): res holds one <<index, result>> per awaitable
sorted(res) ==
  [k \in 1..Len(res) |-> res[CHOOSE a \in 1..Len(res) : res[a][1] = k]]

gather_result(done) == [k \in 1..Len(done) |-> sorted(done)[k][2]]

\* for page in result for url in page
RECURSIVE Flatten(_)
Flatten(pages) == IF pages = <<>> THEN <<>> ELSE Head(pages) \o Flatten(Tail(pages))

\* The coroutines the second gather is given, one per URL.
NewTask(url) ==
  [url |-> url, name |-> report_name(url), st |-> "idle", exc |-> "none", calls |-> 0]

NewTasks(urls) == [k \in 1..Len(urls) |-> NewTask(urls[k])]

\* The first gather raises: entrypoint ends with the exception.
gather_fetch_raise ==
  /\ phase = "Discovery"
  /\ loopBusy = 0
  /\ gather_raises(fetchDone)
  /\ phase' = "Failed"
  /\ error' = gather_exception(fetchDone)
  /\ UNCHANGED <<stages, fetch, fetchDone, result, loopBusy, tasks, firstFailed,
                 dirExists, files, db, store, input, output, base_python>>

\* The first gather returns: entrypoint builds the collect_reports coroutines
\* and hands them to the second gather.
gather_fetch_return ==
  /\ phase = "Discovery"
  /\ loopBusy = 0
  /\ gather_returns(fetchDone, NumPages)
  /\ result' = gather_result(fetchDone)
  /\ tasks' = NewTasks(Flatten(result'))
  /\ phase' = "Download"
  /\ stages' = Append(stages, "Download")
  /\ UNCHANGED <<error, fetch, fetchDone, loopBusy, firstFailed, dirExists,
                 files, db, store, input, output, base_python>>

\* ---------------------------------------------------------------- Download

\* collect_reports without the existence check.
should_download_always(name, fs) == TRUE

\* collect_reports with a registry of the names being downloaded.
should_download_exclusive(name, fs) ==
  /\ name \notin DOMAIN fs
  /\ ~\E u \in 1..Len(tasks) :
        tasks[u].name = name /\ tasks[u].st \in {"connecting", "writing"}

\* os.path.exists(os.path.join(REPORTS_DIR, report_name)) is False
should_download(name, fs) == name \notin DOMAIN fs

\* collect_reports up to its await: makedirs, the existence check, and either
\* the submission of urlretrieve to a pool of its own (max_workers=10) or the
\* return (the file exists).
collect_reports_start(t) ==
  /\ phase = "Download"
  /\ t \in 1..Len(tasks)
  /\ tasks[t].st = "idle"
  /\ dirExists' = TRUE
  /\ IF should_download(tasks[t].name, files)
       THEN tasks' = [tasks EXCEPT ![t].st = "connecting", ![t].calls = @ + 1]
       ELSE tasks' = [tasks EXCEPT ![t].st = "skipped"]
  /\ UNCHANGED <<phase, stages, error, fetch, fetchDone, result, loopBusy,
                 firstFailed, files, db, store, input, output, base_python>>

\* The first failure is the one the gather raises.
NoteFailure(t) == IF firstFailed = 0 THEN t ELSE firstFailed

\* The worker thread in urlretrieve: the connection opens and the target
\* file is opened for writing (created, or truncated), or urlopen raises.
urlretrieve_open(t) ==
  /\ worker_runs(phase)
  /\ t \in 1..Len(tasks)
  /\ tasks[t].st = "connecting"
  /\ IF Transfer(tasks[t].url) = "gone"
       THEN /\ tasks' = [tasks EXCEPT ![t].st = "err", ![t].exc = "HTTPError"]
            /\ firstFailed' = NoteFailure(t)
            /\ UNCHANGED files
       ELSE /\ tasks' = [tasks EXCEPT ![t].st = "writing"]
            /\ files' = (tasks[t].name :> File(tasks[t].url, FALSE, t)) @@ files
            /\ UNCHANGED firstFailed
  /\ UNCHANGED <<phase, stages, error, fetch, fetchDone, result, loopBusy,
                 dirExists, db, store, input, output, base_python>>

\* A download that removes its target when the transfer stops short.
content_too_short_unlinks(fs, name) == [n \in DOMAIN fs \ {name} |-> fs[n]]

\* urlretrieve raises ContentTooShortError after the target was closed;
\* collect_reports has no handler: the directory keeps what was written.
content_too_short(fs, name) == fs

\* The worker thread in urlretrieve: the last block is written, or the
\* transfer stops short and ContentTooShortError is raised; what was written
\* stays.
urlretrieve_finish(t) ==
  /\ worker_runs(phase)
  /\ t \in 1..Len(tasks)
  /\ tasks[t].st = "writing"
  /\ IF Transfer(tasks[t].url) = "cut"
       THEN /\ tasks' = [tasks EXCEPT ![t].st = "err",
                                       ![t].exc = "ContentTooShortError"]
            /\ firstFailed' = NoteFailure(t)
            /\ files' = content_too_short(files, tasks[t].name)
       ELSE /\ tasks' = [tasks EXCEPT ![t].st = "ok"]
            /\ files' = (tasks[t].name :> File(tasks[t].url, TRUE, t)) @@ files
            /\ UNCHANGED firstFailed
  /\ UNCHANGED <<phase, stages, error, fetch, fetchDone, result, loopBusy,
                 dirExists, db, store, input, output, base_python>>

AllTasksStarted == \A t \in 1..Len(tasks) : tasks[t].st # "idle"

\* The downloads that are running: urlretrieve was submitted and has not ended.
InProgress == { t \in 1..Len(tasks) : tasks[t].st \in {"connecting", "writing"} }

\* A join that returns at the first completed download.
downloads_joined_first(ts) == \E t \in 1..Len(ts) : ts[t].st \in {"ok", "skipped"}

\* The second gather returns once every awaitable has completed.
downloads_joined(ts) == \A t \in 1..Len(ts) : ts[t].st \in {"ok", "skipped"}

\* The second gather raises at the first failed download.
gather_collect_raise ==
  /\ phase = "Download"
  /\ AllTasksStarted
  /\ firstFailed # 0
  /\ phase' = "Failed"
  /\ error' = tasks[firstFailed].exc
  /\ UNCHANGED <<stages, fetch, fetchDone, result, loopBusy, tasks, firstFailed,
                 dirExists, files, db, store, input, output, base_python>>

\* The second gather returns: entrypoint goes on to the import.
gather_collect_return ==
  /\ phase = "Download"
  /\ firstFailed = 0
  /\ downloads_joined(tasks)
  /\ phase' = "Ingest"
  /\ stages' = Append(stages, "Ingest")
  /\ UNCHANGED <<error, fetch, fetchDone, result, loopBusy, tasks, firstFailed,
                 dirExists, files, db, store, input, output, base_python>>

\* ------------------------------------------------------------ TableParser

\* A cell of a sheet is a text (a sequence of tokens) or a number.  Numbers
\* are kept in tenths: 15 stands for 1.5.
Str(s) == [num |-> FALSE, str |-> s, val |-> 0]
Num(v) == [num |-> TRUE, str |-> <<>>, val |-> v]

\* The outcome of a call: the exception it raised ("none") and its value.
\* A ParserError carries the item it was raised for and its cause.
NoItem == [kind |-> "none", name |-> <<>>]
Raise(exc) == [exc |-> exc, value |-> <<>>, item |-> NoItem, cause |-> "none"]
Return(v) == [exc |-> "none", value |-> v, item |-> NoItem, cause |-> "none"]

\* ParserError(item, error) of lines 34-36: item is the path of a file or the sheet of one
PathItem(name) == [kind |-> "path", name |-> name]
SheetItem(name) == [kind |-> "sheet", name |-> name]
ParserError(item, cause) ==
  [exc |-> "ParserError", value |-> <<>>, item |-> item, cause |-> cause]

\* constants.ROWS_TO_SKIP; COUNT_HEADER stands for the header label of the
\* contract count column.
ROWS_TO_SKIP ==
  { <<>>, <<"-">>, <<"COUNT_HEADER">>, <<"Itogo">>, <<"Itogo po sekcii", ":">> }

\* x in ROWS_TO_SKIP: a number equals none of the strings
in_ROWS_TO_SKIP(cell) == ~cell.num /\ cell.str \in ROWS_TO_SKIP

\* The texts float() accepts, with their values in tenths.
NumberText == ("1.5" :> 15) @@ ("2.5" :> 25) @@ ("3" :> 30)

\* A conversion that takes any text that is not a number for zero.
float_or_zero(cell) ==
  IF cell.num THEN Return(cell.val)
  ELSE IF Len(cell.str) = 1 /\ cell.str[1] \in DOMAIN NumberText
    THEN Return(NumberText[cell.str[1]])
  ELSE Return(0)

\* float(cell)
float(cell) ==
  IF cell.num THEN Return(cell.val)
  ELSE IF Len(cell.str) = 1 /\ cell.str[1] \in DOMAIN NumberText
    THEN Return(NumberText[cell.str[1]])
  ELSE Raise("ValueError")

\* The texts strptime(_, "%d.%m.%Y") accepts.
DateText == {"13.07.2023", "14.07.2023"}

\* str.strip(): blanks are the token " "
RECURSIVE lstrip(_)
lstrip(s) == IF s # <<>> /\ Head(s) = " " THEN lstrip(Tail(s)) ELSE s

RECURSIVE rstrip(_)
rstrip(s) ==
  IF s # <<>> /\ s[Len(s)] = " " THEN rstrip(SubSeq(s, 1, Len(s) - 1)) ELSE s

strip(s) == lstrip(rstrip(s))

\* str.split(":"): the pieces between the separators
RECURSIVE split(_, _)
split(s, sep) ==
  IF Contains(s, sep)
    THEN LET head == SplitFirst(s, sep)
         IN <<head>> \o split(SubSeq(s, Len(head) + 2, Len(s)), sep)
    ELSE <<s>>

\* product_code[a:b] for 0 <= a <= b
Slice(s, a, b) == SubSeq(s, a + 1, IF b < Len(s) THEN b ELSE Len(s))

\* [OIL_ID_SLICE], [DELIVERY_BASIS_ID_SLICE], [DELIVERY_TYPE_ID_SLICE]
OIL_ID_SLICE(s) == Slice(s, 0, 4)
DELIVERY_BASIS_ID_SLICE_open(s) == Slice(s, 4, Len(s))
DELIVERY_BASIS_ID_SLICE(s) == Slice(s, 4, 7)
DELIVERY_TYPE_ID_SLICE(s) == IF s = <<>> THEN <<>> ELSE <<s[Len(s)]>>

\* Column indexes of constants.py (0-based, -1 is the last column).
EXCHANGE_PRODUCT_ID_COL == 1
EXCHANGE_PRODUCT_NAME_COL == 2
DELIVERY_BASIS_NAME_COL == 3
VOLUME_COL == 4
TOTAL_COL == 5

\* sheet.cell_value(row, col) on a row of the sheet (IndexError past the end)
HasCol(row, col) == col < Len(row)
cell_value(row, col) == row[col + 1]
last_cell(row) == row[Len(row)]

\* trade_date of lines 209-211:
\* strptime(sheet.row_values(3)[1].split(":")[1].strip(), "%d.%m.%Y")
trade_date(sheet) ==
  IF Len(sheet) < 4 \/ Len(sheet[4]) < 2 THEN Raise("IndexError")
  ELSE LET cell == sheet[4][2]
       IN IF cell.num THEN Raise("AttributeError")
          ELSE LET parts == split(cell.str, ":")
               IN IF Len(parts) < 2 THEN Raise("IndexError")
                  ELSE LET text == strip(parts[2])
                       IN IF Len(text) = 1 /\ text[1] \in DateText
                            THEN Return(text[1])
                            ELSE Raise("ValueError")

\* Instrument(...) of lines 220-245 for one row: the keyword arguments are
\* evaluated in order, the first exception wins.
make_instrument(row, date) ==
  IF ~HasCol(row, EXCHANGE_PRODUCT_NAME_COL) THEN Raise("IndexError")
  ELSE IF cell_value(row, EXCHANGE_PRODUCT_ID_COL).num THEN Raise("TypeError")
  ELSE IF ~HasCol(row, DELIVERY_BASIS_NAME_COL) THEN Raise("IndexError")
  ELSE IF ~HasCol(row, VOLUME_COL) THEN Raise("IndexError")
  ELSE IF float(cell_value(row, VOLUME_COL)).exc # "none" THEN Raise("ValueError")
  ELSE IF ~HasCol(row, TOTAL_COL) THEN Raise("IndexError")
  ELSE IF float(cell_value(row, TOTAL_COL)).exc # "none" THEN Raise("ValueError")
  ELSE IF float(last_cell(row)).exc # "none" THEN Raise("ValueError")
  ELSE LET code == cell_value(row, EXCHANGE_PRODUCT_ID_COL).str
       IN Return([exchange_product_id |-> code,
                  exchange_product_name |-> cell_value(row, EXCHANGE_PRODUCT_NAME_COL),
                  oil_id |-> OIL_ID_SLICE(code),
                  delivery_basis_id |-> DELIVERY_BASIS_ID_SLICE(code),
                  delivery_basis_name |-> cell_value(row, DELIVERY_BASIS_NAME_COL),
                  delivery_type_id |-> DELIVERY_TYPE_ID_SLICE(code),
                  volume |-> float(cell_value(row, VOLUME_COL)).value,
                  total |-> float(cell_value(row, TOTAL_COL)).value,
                  count |-> float(last_cell(row)).value,
                  date |-> date])

\* A test that looks at the last cell of the row alone.
skip_row_last(row) == in_ROWS_TO_SKIP(last_cell(row))

\* The test of lines 213-216: the row is skipped.
skip_row(row) == in_ROWS_TO_SKIP(last_cell(row)) \/ in_ROWS_TO_SKIP(row[2])

\* The loop of lines 212-246 from row r on (1-based), with the instruments
\* collected so far.
RECURSIVE instruments_from(_, _, _, _)
instruments_from(sheet, r, date, instruments) ==
  IF r > Len(sheet) THEN Return(instruments)
  ELSE IF Len(sheet[r]) < 2 THEN Raise("IndexError")
  ELSE IF skip_row(sheet[r]) THEN instruments_from(sheet, r + 1, date, instruments)
  ELSE LET i == make_instrument(sheet[r], date)
       IN IF i.exc # "none" THEN Raise(i.exc)
          ELSE instruments_from(sheet, r + 1, date, Append(instruments, i.value))

\* get_instruments_from_sheet
get_instruments_from_sheet(sheet) ==
  LET d == trade_date(sheet)
  IN IF d.exc # "none" THEN Raise(d.exc)
     ELSE instruments_from(sheet, 1, d.value, <<>>)

\* The sheet of the report a.xls: three blank rows, the row with the trade
\* date, the column headers, two instruments and the total.
Blank == Str(<<>>)
BlankRow == <<Blank, Blank, Blank, Blank, Blank, Blank, Blank>>

SheetA ==
  << BlankRow, BlankRow, BlankRow,
     <<Blank, Str(<<"Data torgov", ":", " ", "13.07.2023">>), Blank, Blank, Blank,
       Blank, Blank>>,
     <<Blank, Str(<<"Kod">>), Str(<<"Name">>), Str(<<"Basis">>), Str(<<"Volume">>),
       Str(<<"Total">>), Str(<<"COUNT_HEADER">>)>>,
     <<Blank, Str(<<"A", "1", "2", "3", "4", "X", "Y", "Z">>), Str(<<"Product A">>),
       Str(<<"Basis A">>), Str(<<"1.5">>), Str(<<"2.5">>), Str(<<"3">>)>>,
     <<Blank, Str(<<"B", "5", "6", "7", "8", "Q", "R", "S">>), Str(<<"Product B">>),
       Str(<<"Basis B">>), Num(25), Num(15), Num(30)>>,
     <<Blank, Str(<<"Itogo">>), Blank, Blank, Num(15), Num(25), Num(30)>> >>

\* The cell of the trade date (row index 3, second column) as reports have
\* it, and as a report that is not well formed may have it.
DateCells ==
  { Str(<<"Data torgov", ":", " ", "13.07.2023">>),
    Str(<<"Data torgov", ":", " ", "14.07.2023", " ">>),
    Str(<<"Data torgov", " ", "13.07.2023">>),
    Str(<<"Data torgov", ":", " ", "soon">>) }

HeaderRows(date_cell) ==
  << BlankRow, BlankRow, BlankRow,
     <<Blank, date_cell, Blank, Blank, Blank, Blank, Blank>> >>

\* Rows a sheet may hold below the header.
Code7 == <<"C", "9", "0", "1", "2", "U", "V">>
Code3 == <<"D", "1", "2">>
RowA == SheetA[6]
RowB == SheetA[7]
RowTotal == SheetA[8]
RowCode7 ==
  <<Blank, Str(Code7), Str(<<"Product C">>), Str(<<"Basis C">>), Num(15), Num(15),
    Num(30)>>
RowCode3 ==
  <<Blank, Str(Code3), Str(<<"Product D">>), Str(<<"Basis D">>), Num(25), Num(25),
    Str(<<"3">>)>>
RowDash == [RowA EXCEPT ![5] = Str(<<"-">>), ![6] = Str(<<"-">>), ![7] = Str(<<"-">>)]
RowBadVolume == [RowA EXCEPT ![5] = Str(<<"abc">>)]
RowBadTotal == [RowB EXCEPT ![6] = Blank]
RowBadCount == [RowA EXCEPT ![7] = Str(<<"n/a">>)]
RowNumericCode == [RowB EXCEPT ![2] = Num(30)]

Rows ==
  { BlankRow, SheetA[5], RowA, RowB, RowTotal, RowCode7, RowCode3, RowDash,
    RowBadVolume, RowBadTotal, RowBadCount, RowNumericCode }

\* The sheets: a header with some date cell and at most MaxRows rows below
\* it, and a sheet that ends before the row of the date.
RowSeqs == UNION { [1..n -> Rows] : n \in 0..MaxRows }

Sheets ==
  { HeaderRows(c) \o rows : c \in DateCells, rows \in RowSeqs }
    \cup { <<BlankRow, BlankRow>> }

\* The workbooks of the files other than a.xls, by the name of the file.
\* b.xls is a second report; the next six are reports with one defect; the
\* last three are not workbooks xlrd reads: a web page saved as .xls, a file
\* the process may not read, a workbook without sheets.
Workbooks ==
  [ b |-> Return(<< HeaderRows(Str(<<"Data torgov", ":", " ", "14.07.2023">>))
                      \o <<RowCode7>> >>),
    nocolon |-> Return(<< HeaderRows(Str(<<"Data torgov", " ", "13.07.2023">>))
                            \o <<RowA>> >>),
    baddate |-> Return(<< HeaderRows(Str(<<"Data torgov", ":", " ", "soon">>))
                            \o <<RowA>> >>),
    norow |-> Return(<< <<BlankRow, BlankRow>> >>),
    badvolume |-> Return(<< SubSeq(SheetA, 1, 6) \o <<RowBadVolume, RowB>> >>),
    badtotal |-> Return(<< SubSeq(SheetA, 1, 6) \o <<RowBadTotal, RowB>> >>),
    badcount |-> Return(<< SubSeq(SheetA, 1, 6) \o <<RowBadCount, RowB>> >>),
    html |-> Raise("XLRDError"),
    locked |-> Raise("PermissionError"),
    nosheets |-> Return(<<>>) ]

DocName ==
  [ b |-> "b.xls", nocolon |-> "nocolon.xls", baddate |-> "baddate.xls",
    norow |-> "norow.xls", badvolume |-> "badvolume.xls",
    badtotal |-> "badtotal.xls", badcount |-> "badcount.xls", html |-> "html.xls",
    locked |-> "locked.xls", nosheets |-> "nosheets.xls" ]

\* What xlrd.open_workbook makes of a file: the exception it raises ("none")
\* and the sheets of the workbook.  A file cut short is a damaged compound
\* document; the site serves a workbook at a.xls and none at gone.xls.
open_workbook(file) ==
  LET last == SplitLast(file.url)
  IN IF ~file.complete THEN Raise("CompDocError")
     ELSE IF last = <<"a.xls">> THEN Return(<<SheetA>>)
     ELSE IF \E d \in DOMAIN DocName : last = <<DocName[d]>>
       THEN Workbooks[CHOOSE d \in DOMAIN DocName : last = <<DocName[d]>>]
     ELSE Raise("XLRDError")

\* get_sheet: open_workbook(path).sheet_by_index(0)
get_sheet(file) ==
  LET book == open_workbook(file)
  IN IF book.exc # "none" THEN Raise(book.exc)
     ELSE IF book.value = <<>> THEN Raise("IndexError")
     ELSE Return(book.value[1])

\* path.glob(file_pattern): "*.xls" matches the names that end in .xls
XlsNames == {"a.xls", "cut.xls", "gone.xls"} \cup { DocName[d] : d \in DOMAIN DocName }

Matches(name, file_pattern) ==
  \/ file_pattern = "*"
  \/ file_pattern = "*.xls" /\ name[Len(name)] \in XlsNames

glob(fs, file_pattern) == { n \in DOMAIN fs : Matches(n, file_pattern) }

\* One round of the loop of parse_xls_files, for the item `n`.
parse_item(fs, n, parsed_instruments) ==
  LET sheet == get_sheet(fs[n])
  IN IF sheet.exc \in {"CompDocError", "IndexError"}
       THEN ParserError(PathItem(n), sheet.exc)
     ELSE IF sheet.exc # "none" THEN Raise(sheet.exc)
     ELSE LET got == get_instruments_from_sheet(sheet.value)
          IN IF got.exc = "ValueError" THEN ParserError(SheetItem(n), got.exc)
             ELSE IF got.exc # "none" THEN Raise(got.exc)
             ELSE Return(parsed_instruments \o got.value)

\* The loop of parse_xls_files over the items glob has still to yield.  glob
\* yields them in the order of the directory, which is any order: the value
\* is the set of the outcomes over all orders.
RECURSIVE parse_items(_, _, _)
parse_items(fs, items, parsed_instruments) ==
  IF items = {} THEN { Return(parsed_instruments) }
  ELSE UNION { LET r == parse_item(fs, n, parsed_instruments)
               IN IF r.exc # "none" THEN { r }
                  ELSE parse_items(fs, items \ {n}, r.value)
               : n \in items }

\* parse_xls_files(path, file_pattern): the possible outcomes
parse_xls_files(fs, file_pattern) == parse_items(fs, glob(fs, file_pattern), <<>>)

\* ----------------------------------------------------------- IngestionSink

\* The positional arguments import_data_to_db passes to parse_xls_files.
parse_call_args == <<"REPORTS_DIR">>

\* The call parse_xls_files(*args): Python raises TypeError unless both
\* required parameters, path and file_pattern, are given.
call_parse_xls_files(args, fs) ==
  IF Len(args) # 2 THEN { Raise("TypeError") }
  ELSE parse_xls_files(fs, args[2])

\* The outcome of an import: the exception raised and the rows committed.
Imported(exc, rows) == [exc |-> exc, rows |-> rows]

\* session.add_all(...) and session.commit() for the parsed instruments
add_all_and_commit(instruments, dbk) ==
  IF dbk = "commit_fails" THEN Imported("DBAPIError", <<>>)
  ELSE Imported("none", instruments)

\* An import that gives parse_xls_files both arguments and commits row by
\* row: a failing database has committed the first row when it fails.
import_data_autocommit(fs, dbk) ==
  { IF instruments.exc # "none" THEN Imported(instruments.exc, <<>>)
    ELSE IF dbk = "commit_fails" /\ Len(instruments.value) > 1
      THEN Imported("DBAPIError", SubSeq(instruments.value, 1, 1))
    ELSE Imported("none", instruments.value)
    : instruments \in call_parse_xls_files(<<"REPORTS_DIR", "*.xls">>, fs) }

\* import_data_to_db: parse, session.add_all, session.commit; the possible
\* outcomes
import_data_to_db(fs, dbk) ==
  { IF instruments.exc # "none" THEN Imported(instruments.exc, <<>>)
    ELSE add_all_and_commit(instruments.value, dbk)
    : instruments \in call_parse_xls_files(parse_call_args, fs) }

\* create_model_and_import_data_to_db: create_model, then the import
create_model_and_import_data_to_db(fs, dbk) ==
  IF dbk = "down" THEN { Imported("OperationalError", <<>>) }
  ELSE import_data_to_db(fs, dbk)

\* ----------------------------------------------------------------- Cleanup

\* The removal in a finally clause.
cleanup_always(exc) == TRUE

\* remove_reports_directory is the statement after the awaited import: it
\* runs when the import raised nothing.
cleanup_runs(exc) == exc = "none"

\* Lines 36-39 of entrypoint: the import, then the removal of REPORTS_DIR
\* (rmtree raises FileNotFoundError when the directory does not exist).
entrypoint_ingest ==
  /\ phase = "Ingest"
  /\ \E r \in create_model_and_import_data_to_db(files, db) :
       LET cleanup == cleanup_runs(r.exc)
       IN /\ store' = store \o r.rows
          /\ stages' = IF cleanup THEN Append(stages, "Cleanup") ELSE stages
          /\ IF cleanup /\ dirExists
               THEN dirExists' = FALSE /\ files' = NoFiles
               ELSE UNCHANGED <<dirExists, files>>
          /\ error' = IF r.exc # "none" THEN r.exc
                      ELSE IF cleanup /\ ~dirExists THEN "FileNotFoundError"
                      ELSE "none"
          /\ phase' = IF error' = "none" THEN "Completed" ELSE "Failed"
  /\ UNCHANGED <<fetch, fetchDone, result, loopBusy, tasks, firstFailed, db,
                 input, output, base_python>>

\* ------------------------------------------------------------ specification

Next ==
  \/ \E i \in 1..NumPages : fetch_data_start(i)
  \/ \E i \in 1..NumPages : \E r \in Responses : urlopen_done(i, r)
  \/ \E i \in 1..NumPages : fetch_data_resume(i)
  \/ \E i \in 1..NumPages : fetch_and_parse_data_finish(i)
  \/ gather_fetch_raise
  \/ gather_fetch_return
  \/ \E t \in 1..Len(tasks) : collect_reports_start(t)
  \/ \E t \in 1..Len(tasks) : urlretrieve_open(t)
  \/ \E t \in 1..Len(tasks) : urlretrieve_finish(t)
  \/ gather_collect_raise
  \/ gather_collect_return
  \/ entrypoint_ingest

Spec == Init /\ [][Next]_vars

\* The Download stage with one download more than max_workers.  The state
\* after a Discovery in which the first page issued listed MaxWorkers + 1
\* reports (000.xls has the name of three tokens "0") and the others none.
PoolSize == MaxWorkers + 1

PoolLine(k) ==
  <<"<a ", "href=", Q, PATH>> \o [j \in 1..k |-> "0"] \o <<".xls", Q, ">">>

PoolBody(i) == IF i = 1 THEN [k \in 1..PoolSize |-> PoolLine(k)] ELSE <<>>

InitPool ==
  /\ phase = "Download"
  /\ stages = <<"Discovery", "Download">>
  /\ error = "none"
  /\ fetch = [i \in 1..NumPages |->
                [st |-> "ok", resp |-> Returned(HTTP_OK, PoolBody(i), TRUE), exc |-> "none"]]
  /\ fetchDone = [i \in 1..NumPages |-> <<i, urls_of_page(PoolBody(i))>>]
  /\ result = gather_result(fetchDone)
  /\ loopBusy = 0
  /\ tasks = NewTasks(Flatten(result))
  /\ firstFailed = 0
  /\ dirExists = FALSE
  /\ files = NoFiles
  /\ db = "ok"
  /\ store = <<>>
  /\ input = NoCall
  /\ output = NoCall
  /\ NoObjects

\* The tasks of InitPool differ in nothing but the name of their report, and
\* the event loop starts them one after the other without suspending: they
\* are started in index order here, which loses no state up to a renaming of
\* the tasks.
NextPool ==
  \/ \E t \in 1..Len(tasks) :
        /\ \A u \in 1..(t - 1) : tasks[u].st # "idle"
        /\ collect_reports_start(t)
  \/ \E t \in 1..Len(tasks) : urlretrieve_open(t)
  \/ \E t \in 1..Len(tasks) : urlretrieve_finish(t)
  \/ gather_collect_return
  \/ entrypoint_ingest

SpecPool == InitPool /\ [][NextPool]_vars

\* ------------------------------------------------- calls outside a run

\* The functions of parser_stdlib.py are public: the specifications below
\* call one of them on an argument drawn from a bounded set, with no run of
\* entrypoint in progress.
NoRun ==
  /\ phase = "Discovery"
  /\ stages = <<"Discovery">>
  /\ error = "none"
  /\ fetch = [i \in 1..NumPages |-> IdleFetch]
  /\ fetchDone = <<>>
  /\ result = <<>>
  /\ loopBusy = 0
  /\ tasks = <<>>
  /\ firstFailed = 0
  /\ dirExists = FALSE
  /\ files = NoFiles
  /\ db = "ok"
  /\ store = <<>>

\* get_instruments_from_sheet(sheet) on any sheet of Sheets
InitSheet == NoRun /\ NoObjects /\ input \in Sheets /\ output = NoCall

parse_sheet ==
  /\ output = NoCall
  /\ output' = get_instruments_from_sheet(input)
  /\ UNCHANGED <<input, pipeline, base_python>>

NextSheet == parse_sheet

SpecSheet == InitSheet /\ [][NextSheet]_vars

\* A directory of reports: at most MaxDocs files, each the complete download
\* of its document but for cut.xls, which was cut short.  notes.txt is a
\* file that "*.xls" does not match.
DirNames ==
  (XlsNames \ {"gone.xls"}) \cup {"notes.txt"}

DocFile(x) == File(Site \o <<PATH, x>>, x # "cut.xls", 0)

Dir(names) ==
  [ n \in { report_name(DocFile(x).url) : x \in names } |-> DocFile(n[Len(n)]) ]

Dirs == { Dir(names) : names \in { ns \in SUBSET DirNames : Cardinality(ns) <= MaxDocs } }

\* parse_xls_files(path, "*.xls") on any directory of Dirs
InitDir == NoRun /\ NoObjects /\ input \in Dirs /\ output = NoCall

parse_directory ==
  /\ output = NoCall
  /\ output' \in parse_xls_files(input, "*.xls")
  /\ UNCHANGED <<input, pipeline, base_python>>

NextDir == parse_directory

SpecDir == InitDir /\ [][NextDir]_vars

\* A value handed to the extractor as `data`: its type, the type of its
\* items, and its items when they are strings (lines).
Value(type, elem, items) == [type |-> type, elem |-> elem, items |-> items]

\* Lines with two links, with a link that starts with '?', and with a link
\* whose closing quote is missing.
LineTwo ==
  <<"<a ", "href=", Q, S, "news", Q, ">", "<a ", "href=", Q, PATH, "a.xls", Q, ">">>
LineQuery == <<"<a ", "href=", Q, M, "page=2", Q, ">">>
LineOpen == <<"<a ", "href=", Q, PATH, "a.xls">>

Lines == { LineA, LineCut, LinePlain, LineTwo, LineQuery, LineOpen }

LineSeqs == UNION { [1..n -> Lines] : n \in 0..MaxLines }

Values ==
  { Value(t, "str", ls) : t \in {"list", "tuple"}, ls \in LineSeqs }
    \cup { Value(t, "int", <<LinePlain>>) : t \in {"list", "tuple"} }
    \cup { Value("str", "str", <<>>), Value("NoneType", "none", <<>>) }

\* A check that lets every sequence type through.
check_incoming_data_type_sequence(data, expected_type) ==
  data.type \in {expected_type, "tuple"}

\* Parser._check_incoming_data_type: isinstance(data, expected_type) holds
check_incoming_data_type(data, expected_type) == data.type = expected_type

\* `expression in line` and re.search(pattern, item) raise TypeError on an
\* item that is no string.
ItemsFail(data) == data.elem # "str" /\ data.items # <<>>

\* await parser.parse_by_expression(data, expression)
call_parse_by_expression(data, expression) ==
  IF ~check_incoming_data_type(data, "list") THEN Raise("InvalidDataException")
  ELSE IF ItemsFail(data) THEN Raise("TypeError")
  ELSE Return(parse_by_expression(data.items, expression))

\* await parser.get_urls_from_retrieved_data(data, site_prefix)
call_get_urls_from_retrieved_data(data, site_prefix) ==
  IF ~check_incoming_data_type(data, "list") THEN Raise("InvalidDataException")
  ELSE IF ItemsFail(data) THEN Raise("TypeError")
  ELSE Return(get_urls_from_retrieved_data(data.items, site_prefix))

\* The pages fetch_data can return: lists of the lines of a body.
Pages == { Value("list", "str", ls) : ls \in LineSeqs }

InitExtract ==
  /\ NoRun
  /\ NoObjects
  /\ input \in [fn : {"parse_by_expression", "get_urls_from_retrieved_data"},
                 data : Values, site_prefix : BOOLEAN]
               \cup [fn : {"fetch_and_parse_data"}, data : Pages,
                     site_prefix : {TRUE}]
  /\ output = NoCall

filter_lines ==
  /\ output = NoCall
  /\ input.fn = "parse_by_expression"
  /\ output' = call_parse_by_expression(input.data, PATH)
  /\ UNCHANGED <<input, pipeline, base_python>>

extract_urls ==
  /\ output = NoCall
  /\ input.fn = "get_urls_from_retrieved_data"
  /\ output' = call_get_urls_from_retrieved_data(input.data, input.site_prefix)
  /\ UNCHANGED <<input, pipeline, base_python>>

\* fetch_and_parse_data from the page that fetch_data returned on: the
\* lines with the report path, then the URLs of those lines.
discover_urls ==
  /\ output = NoCall
  /\ input.fn = "fetch_and_parse_data"
  /\ output' = Return(urls_of_page(input.data.items))
  /\ UNCHANGED <<input, pipeline, base_python>>

NextExtract == filter_lines \/ extract_urls \/ discover_urls

SpecExtract == InitExtract /\ [][NextExtract]_vars

\* ------------------------------------------- base_python: linked_list.py

\* An ObjList is known by its number, 1..MaxNodes in the order of creation;
\* NoNode stands for None and NotAnObjList for a value of another type.
NoNode == 0
NotAnObjList == -1
Nodes == 1..MaxNodes

\* The data the nodes are made with.
DataValues == {"x", "y"}

\* LinkedList(): head and tail are None.  next, prev and data are the fields
\* of the nodes; made counts the nodes made so far.
EmptyList ==
  [head |-> NoNode, tail |-> NoNode, next |-> [n \in Nodes |-> NoNode],
   prev |-> [n \in Nodes |-> NoNode], data |-> [n \in Nodes |-> ""], made |-> 0]

\* ObjList(data): the next node, its next and prev None
ObjList(l, data) == [l EXCEPT !.made = @ + 1, !.data[l.made + 1] = data]

\* _check_obj(obj) passes: isinstance(obj, ObjList)
check_obj(obj) == obj \in Nodes

\* The outcome of a method of the list: the exception raised ("none") and
\* the list as the call leaves it.
Done(l) == [exc |-> "none", self |-> l]
Failed(exc, l) == [exc |-> exc, self |-> l]

\* node.next = obj and node.prev = obj: the setters check obj first
set_next(l, node, obj) ==
  IF ~check_obj(obj) THEN Failed("InvalidObjectException", l)
  ELSE Done([l EXCEPT !.next[node] = obj])

set_prev(l, node, obj) ==
  IF ~check_obj(obj) THEN Failed("InvalidObjectException", l)
  ELSE Done([l EXCEPT !.prev[node] = obj])

\* LinkedList.add_obj(obj)
add_obj(l, obj) ==
  IF ~check_obj(obj) THEN Failed("InvalidObjectException", l)
  ELSE IF l.head = NoNode THEN Done([l EXCEPT !.head = obj, !.tail = obj])
  ELSE IF l.tail # NoNode
    THEN LET a == set_next(l, l.tail, obj)
             b == set_prev(a.self, obj, l.tail)
         IN IF a.exc # "none" THEN a
            ELSE IF b.exc # "none" THEN b
            ELSE Done([b.self EXCEPT !.tail = obj])
  ELSE Done(l)

\* LinkedList.remove_obj()
remove_obj(l) ==
  IF l.tail = NoNode THEN Done(l)
  ELSE LET moved == [l EXCEPT !.tail = l.prev[l.tail]]
       IN IF moved.tail # NoNode THEN set_next(moved, moved.tail, NoNode)
          ELSE Done([moved EXCEPT !.head = NoNode])

\* LinkedList.get_data(): the data of the nodes from head along next.  A
\* list of fresh nodes has no cycle, so MaxNodes steps reach the end.
RECURSIVE data_from(_, _, _)
data_from(l, current, steps) ==
  IF current = NoNode \/ steps = 0 THEN <<>>
  ELSE <<l.data[current]>> \o data_from(l, l.next[current], steps - 1)

get_data(l) == data_from(l, l.head, MaxNodes)

\* A call on the list: the method, the list before the call, the argument.
ListCall(fn, l, arg) == [fn |-> fn, self |-> l, arg |-> arg]

InitList ==
  /\ NoRun
  /\ lst = EmptyList
  /\ net = None
  /\ pole = None
  /\ input = ListCall("none", EmptyList, NoNode)
  /\ output = NoCall

\* lst.add_obj(ObjList(data))
add_fresh_obj(data) ==
  /\ lst.made < MaxNodes
  /\ LET made == ObjList(lst, data)
         r == add_obj(made, made.made)
     IN /\ lst' = r.self
        /\ input' = ListCall("add_obj", lst, made.made)
        /\ output' = IF r.exc = "none" THEN Return(<<>>) ELSE Raise(r.exc)
  /\ UNCHANGED <<pipeline, net, pole>>

\* lst.add_obj(x) for an x that is no ObjList
add_other_obj ==
  /\ LET r == add_obj(lst, NotAnObjList)
     IN /\ lst' = r.self
        /\ input' = ListCall("add_obj", lst, NotAnObjList)
        /\ output' = IF r.exc = "none" THEN Return(<<>>) ELSE Raise(r.exc)
  /\ UNCHANGED <<pipeline, net, pole>>

\* lst.remove_obj()
remove_last_obj ==
  /\ LET r == remove_obj(lst)
     IN /\ lst' = r.self
        /\ input' = ListCall("remove_obj", lst, NoNode)
        /\ output' = IF r.exc = "none" THEN Return(<<>>) ELSE Raise(r.exc)
  /\ UNCHANGED <<pipeline, net, pole>>

NextList ==
  \/ \E data \in DataValues : add_fresh_obj(data)
  \/ add_other_obj
  \/ remove_last_obj

SpecList == InitList /\ [][NextList]_vars

\* ----------------------------------------- base_python: local_network.py

IP_GENERATION_MAX_RETRIES == 10

\* The values of randint(1, 255), and those the model draws: the lowest
\* and the highest.
IpRange == 1..255
Draws == { r \in IpRange : r = 1 \/ r = 255 }

\* Two routers exist from the start; a server is known by its number,
\* 1..MaxServers in the order of construction.
Routers == {"r1", "r2"}
Servers == 1..MaxServers

\* Data(data, ip)
Data(data, ip) == [data |-> data, ip |-> ip]
NoData == Data(0, 0)

\* The packages a server may send as its k-th package of the run: the data
\* is k, the address any of those the model draws.
Packages(k) == { Data(k, ip) : ip \in Draws }

\* The network before any server is made.  ip is 0 for a server not made
\* yet; sent counts the packages sent so far.
EmptyNet ==
  [assigned_ips |-> {}, made |-> 0, ip |-> [s \in Servers |-> 0],
   connected_to |-> [s \in Servers |-> None],
   buffer |-> [s \in Servers |-> <<>>],
   linked_servers |-> [r \in Routers |-> {}],
   router_buffer |-> [r \in Routers |-> <<>>], sent |-> 0]

\* A generator that takes the first address drawn, assigned or not.
generate_ip_unchecked(assigned, tries) ==
  { [exc |-> "none", ip |-> res, tries |-> tries] : res \in Draws }

\* Server._generate_ip from the test of the while loop on, with `tries`
\* draws that hit behind it: the outcomes over all the values of randint.
RECURSIVE generate_ip(_, _)
generate_ip(assigned, tries) ==
  IF tries >= IP_GENERATION_MAX_RETRIES
    THEN { [exc |-> "IpAddressGenerationError", ip |-> 0, tries |-> tries] }
  ELSE { [exc |-> "none", ip |-> res, tries |-> tries]
           : res \in Draws \ assigned }
         \cup (IF Draws \cap assigned = {} THEN {}
               ELSE generate_ip(assigned, tries + 1))

\* Server(): the outcomes, each with the number of draws that hit an
\* assigned address
Server(n) ==
  { [exc |-> g.exc, tries |-> g.tries,
     self |-> IF g.exc # "none" THEN n
              ELSE [n EXCEPT !.made = @ + 1, !.ip[n.made + 1] = g.ip,
                             !.assigned_ips = @ \cup {g.ip}]]
    : g \in generate_ip(n.assigned_ips, 0) }

\* server.connected_to = router: the setter validates router first
set_connected_to(n, server, router) ==
  IF router \notin Routers THEN Failed("InvalidDataException", n)
  ELSE Done([n EXCEPT !.connected_to[server] = router])

\* Router.link(server), server a Server
link(n, router, server) ==
  IF n.connected_to[server] # None THEN Failed("RuntimeError", n)
  ELSE set_connected_to([n EXCEPT !.linked_servers[router] = @ \cup {server}],
                        server, router)

\* Router.unlink(server), server a Server
unlink(n, router, server) ==
  IF n.connected_to[server] = None THEN Failed("RuntimeError", n)
  ELSE set_connected_to([n EXCEPT !.linked_servers[router] = @ \ {server}],
                        server, None)

\* Server.send_data(data), data a Data
Server_send_data(n, server, data) ==
  IF n.connected_to[server] = None THEN Failed("AttributeError", n)
  ELSE Done([n EXCEPT !.router_buffer[n.connected_to[server]] = Append(@, data),
                      !.sent = @ + 1])

\* A test that takes every package for every server.
matches_any(server_ip, package) == TRUE

\* server.ip == package.ip
matches(server_ip, package) == server_ip = package.ip

\* Router.send_data(): every package goes, in the order of the buffer, to
\* the linked servers it matches; then the buffer is cleared.
Router_send_data(n, router) ==
  Done([n EXCEPT
          !.buffer = [s \in Servers |->
                        IF s \in n.linked_servers[router]
                          THEN n.buffer[s] \o
                                 SelectSeq(n.router_buffer[router],
                                           LAMBDA package : matches(n.ip[s], package))
                          ELSE n.buffer[s]],
          !.router_buffer[router] = <<>>])

\* Server.get_data(): the value returned and the network afterwards
Server_get_data(n, server) ==
  [exc |-> "none", self |-> [n EXCEPT !.buffer[server] = <<>>],
   value |-> n.buffer[server]]

\* A call on the network: the method, the network before the call, the
\* router, server and package it is about (None, 0, NoData: none), and for
\* Server() the number of draws of randint that hit an assigned address.
NetCall(fn, n, router, server, data) ==
  [fn |-> fn, self |-> n, router |-> router, server |-> server, data |-> data,
   hits |-> 0]

Outcome(r) == IF r.exc = "none" THEN Return(<<>>) ELSE Raise(r.exc)

InitNet ==
  /\ NoRun
  /\ lst = None
  /\ net = EmptyNet
  /\ pole = None
  /\ input = NetCall("none", EmptyNet, None, 0, NoData)
  /\ output = NoCall

Made(server) == server <= net.made

\* Server()
new_server ==
  /\ net.made < MaxServers
  /\ \E r \in Server(net) :
        /\ net' = r.self
        /\ input' = [NetCall("Server", net, None, 0, NoData)
                       EXCEPT !.hits = r.tries]
        /\ output' = Outcome(r)
  /\ UNCHANGED <<pipeline, lst, pole>>

\* router.link(server)
call_link(router, server) ==
  /\ Made(server)
  /\ LET r == link(net, router, server)
     IN /\ net' = r.self
        /\ input' = NetCall("link", net, router, server, NoData)
        /\ output' = Outcome(r)
  /\ UNCHANGED <<pipeline, lst, pole>>

\* router.unlink(server)
call_unlink(router, server) ==
  /\ Made(server)
  /\ LET r == unlink(net, router, server)
     IN /\ net' = r.self
        /\ input' = NetCall("unlink", net, router, server, NoData)
        /\ output' = Outcome(r)
  /\ UNCHANGED <<pipeline, lst, pole>>

\* server.send_data(data)
call_server_send_data(server, data) ==
  /\ Made(server)
  /\ net.sent < MaxPackages
  /\ LET r == Server_send_data(net, server, data)
     IN /\ net' = r.self
        /\ input' = NetCall("Server.send_data", net, None, server, data)
        /\ output' = Outcome(r)
  /\ UNCHANGED <<pipeline, lst, pole>>

\* router.send_data()
call_router_send_data(router) ==
  /\ LET r == Router_send_data(net, router)
     IN /\ net' = r.self
        /\ input' = NetCall("Router.send_data", net, router, 0, NoData)
        /\ output' = Outcome(r)
  /\ UNCHANGED <<pipeline, lst, pole>>

\* server.get_data()
call_server_get_data(server) ==
  /\ Made(server)
  /\ LET r == Server_get_data(net, server)
     IN /\ net' = r.self
        /\ input' = NetCall("Server.get_data", net, None, server, NoData)
        /\ output' = Return(r.value)
  /\ UNCHANGED <<pipeline, lst, pole>>

NextNet ==
  \/ new_server
  \/ \E router \in Routers, server \in Servers : call_link(router, server)
  \/ \E router \in Routers, server \in Servers : call_unlink(router, server)
  \/ \E server \in Servers, data \in Packages(net.sent + 1) :
       call_server_send_data(server, data)
  \/ \E router \in Routers : call_router_send_data(router)
  \/ \E server \in Servers : call_server_get_data(server)

SpecNet == InitNet /\ [][NextNet]_vars

\* ------------------------------------------ base_python: mine_sweeper.py

\* Cell(around_mines, mine)
Cell(around_mines, mine) ==
  [mine |-> mine, around_mines |-> around_mines, is_open |-> FALSE]

\* No GamePole yet: size 0 and no rows.
NoPole == [size |-> 0, mines_count |-> 0, cells |-> <<>>]

\* GamePole.generate_empty_field: size rows of size cells; _pole[x][y] of
\* the code is cells[x + 1][y + 1].
generate_empty_field(size) == [x \in 1..size |-> [y \in 1..size |-> Cell(0, FALSE)]]

\* random.sample(range(size**2), mines_count): the lists of mines_count
\* different numbers of 0..size**2 - 1
sample(size, mines_count) ==
  { q \in [1..mines_count -> 0..(size * size - 1)] :
      \A i, j \in 1..mines_count : i # j => q[i] # q[j] }

\* for i in range(-1, 2): for j in range(-1, 2)
offsets == ((-1)..1) \X ((-1)..1)

\* The body of the loop of generate_mines for one mine: the cell becomes a
\* mine, and around_mines grows by one in every cell of the field at an
\* offset of it.
place_mine(cells, size, mine) ==
  LET x_mine_pos == mine \div size
      y_mine_pos == mine % size
  IN [x \in 1..size |-> [y \in 1..size |->
       LET c == cells[x][y]
           hit == <<(x - 1) - x_mine_pos, (y - 1) - y_mine_pos>> \in offsets
       IN [mine |-> c.mine \/ (x - 1 = x_mine_pos /\ y - 1 = y_mine_pos),
           around_mines |-> IF hit THEN c.around_mines + 1 ELSE c.around_mines,
           is_open |-> c.is_open]]]

\* GamePole.generate_mines for the sample `mines`, from its k-th mine on
RECURSIVE generate_mines(_, _, _, _)
generate_mines(cells, size, mines, k) ==
  IF k > Len(mines) THEN cells
  ELSE generate_mines(place_mine(cells, size, mines[k]), size, mines, k + 1)

\* GamePole(size, mines_count) when random.sample returns `mines`
GamePole(size, mines_count, mines) ==
  [size |-> size, mines_count |-> mines_count,
   cells |-> generate_mines(generate_empty_field(size), size, mines, 1)]

\* list[i]: a negative index counts from the end, and an index outside
\* -len..len-1 raises IndexError
in_list(i, len) == -len <= i /\ i < len
item(i, len) == IF i < 0 THEN i + len + 1 ELSE i + 1

\* GamePole.reveal_cell(x_pos, y_pos)
reveal_cell(p, x_pos, y_pos) ==
  IF (0 < x_pos /\ x_pos >= p.size) \/ (0 < y_pos /\ y_pos >= p.size)
    THEN Failed("ValueError", p)
  ELSE IF ~in_list(x_pos, p.size) \/ ~in_list(y_pos, p.size)
    THEN Failed("IndexError", p)
  ELSE IF (x_pos < 0 \/ x_pos >= p.size) \/ (y_pos < 0 \/ y_pos >= p.size)
    THEN Failed("ValueError", p)
  ELSE LET x == item(x_pos, p.size)
           y == item(y_pos, p.size)
           opened == [p EXCEPT !.cells[x][y].is_open = TRUE]
       IN IF p.cells[x][y].is_open
            THEN Failed("CellAlreadyRevealedException", p)
          ELSE IF p.cells[x][y].mine THEN Failed("GameOverException", opened)
          ELSE Done(opened)

\* A call on the game: the method, the game before it and the arguments.
GameCall(fn, p, x_pos, y_pos) ==
  [fn |-> fn, self |-> p, x_pos |-> x_pos, y_pos |-> y_pos]

InitGame ==
  /\ NoRun
  /\ lst = None
  /\ net = None
  /\ pole = NoPole
  /\ input = GameCall("none", NoPole, 0, 0)
  /\ output = NoCall

\* GamePole(size, mines_count), 0 <= mines_count <= size**2
new_game(size, mines_count) ==
  /\ pole = NoPole
  /\ \E mines \in sample(size, mines_count) :
        pole' = GamePole(size, mines_count, mines)
  /\ input' = GameCall("GamePole", pole, size, mines_count)
  /\ output' = Return(<<>>)
  /\ UNCHANGED <<pipeline, lst, net>>

\* game.reveal_cell(x_pos, y_pos)
call_reveal_cell(x_pos, y_pos) ==
  /\ pole # NoPole
  /\ LET r == reveal_cell(pole, x_pos, y_pos)
     IN /\ pole' = r.self
        /\ input' = GameCall("reveal_cell", pole, x_pos, y_pos)
        /\ output' = Outcome(r)
  /\ UNCHANGED <<pipeline, lst, net>>

\* The coordinates tried: from below -size to size.
Coordinates == (-(MaxSize + 1))..MaxSize

NextGame ==
  \/ \E size \in 1..MaxSize : \E mines_count \in 0..(size * size) :
       new_game(size, mines_count)
  \/ \E x_pos, y_pos \in Coordinates : call_reveal_cell(x_pos, y_pos)

SpecGame == InitGame /\ [][NextGame]_vars

\* ------------------------------------------------------------------ claims

InStages(x) == \E k \in 1..Len(stages) : stages[k] = x
Ended == phase \in {"Completed", "Failed"}
AllFetchOk == \A i \in 1..NumPages : fetch[i].st = "ok"
AllDownloadsOk == InStages("Download") /\ downloads_joined(tasks)
AllDocsParse == \A r \in parse_xls_files(files, "*.xls") : r.exc = "none"
Started(t) == tasks[t].st # "idle"

\* C1: when every page fetch, every download, every document parse and the
\* commit succeed, the run goes through Discovery, Download, Ingest and
\* Cleanup in that order and ends Completed, the reports directory removed.
C1_HappyRunCompletes ==
  (Ended /\ AllFetchOk /\ AllDownloadsOk /\ AllDocsParse /\ db = "ok")
    => /\ phase = "Completed"
       /\ stages = <<"Discovery", "Download", "Ingest", "Cleanup">>
       /\ ~dirExists

\* C2: only a step that ends the run Completed removes a file or the reports
\* directory; in a run that ended Failed Cleanup was not executed and the
\* file of every finished download is on disk.
C2_CleanupOnlyAfterIngest ==
  /\ [][(~(DOMAIN files \subseteq DOMAIN files') \/ (dirExists /\ ~dirExists'))
          => (phase = "Ingest" /\ phase' = "Completed")]_vars
  /\ [](phase = "Failed" =>
          /\ ~InStages("Cleanup")
          /\ \A t \in 1..Len(tasks) :
               tasks[t].st = "ok" => tasks[t].name \in DOMAIN files)

\* A run that failed in the Ingest stage with a downloaded report on disk.
C2_Witness ==
  /\ phase = "Failed"
  /\ InStages("Ingest")
  /\ \E t \in 1..Len(tasks) : tasks[t].st = "ok" /\ tasks[t].name \in DOMAIN files

\* C3: a download is started only after the fetch and extraction of every
\* page has completed; once a page has failed no download is ever started
\* and the run can only fail.
C3_DiscoveryBeforeDownload ==
  /\ (phase \in {"Download", "Ingest", "Completed"} \/ \E t \in 1..Len(tasks) : Started(t))
       => AllFetchOk
  /\ (\E i \in 1..NumPages : fetch[i].st = "err")
       => /\ \A t \in 1..Len(tasks) : ~Started(t)
          /\ phase \in {"Discovery", "Failed"}

\* A run that failed in Discovery although another page had been fetched.
C3_Witness ==
  /\ phase = "Failed"
  /\ \E i, j \in 1..NumPages : fetch[i].st = "err" /\ fetch[j].st = "ok"
  /\ tasks = <<>>

\* C4: once Ingest has begun no download is in progress and every download
\* has completed; after a failed download Ingest has not begun.
C4_DownloadBarrier ==
  /\ InStages("Ingest") => (InProgress = {} /\ downloads_joined(tasks))
  /\ (\E t \in 1..Len(tasks) : tasks[t].st = "err") => ~InStages("Ingest")

\* Ingest begun after two downloads, one of them finished last.
C4_Witness ==
  /\ phase = "Ingest"
  /\ Len(tasks) >= 2
  /\ \E t \in 1..Len(tasks) : tasks[t].st = "ok" /\ tasks[t].calls = 1

\* C5: at no time are more than 10 report downloads in progress.
C5_AtMostTenDownloads == Cardinality(InProgress) <= MaxWorkers

\* C6: a collect call that finds its file present makes no network call,
\* changes no file and never downloads later; one that finds it absent has
\* the directory created and starts exactly one download, which writes the
\* file.
C6_CollectIdempotent ==
  /\ [][\A t \in 1..Len(tasks) :
          /\ (tasks[t].st = "idle" /\ tasks'[t].st # "idle") =>
               IF tasks[t].name \in DOMAIN files
                 THEN /\ tasks'[t].st = "skipped"
                      /\ tasks'[t].calls = 0
                      /\ files' = files
                 ELSE /\ tasks'[t].st = "connecting"
                      /\ tasks'[t].calls = 1
                      /\ dirExists'
          /\ tasks[t].st = "skipped" => tasks'[t] = tasks[t]
          /\ tasks[t].st # "idle" => tasks'[t].calls = tasks[t].calls]_vars
  /\ [](\A t \in 1..Len(tasks) :
          tasks[t].st \in {"writing", "ok"} => tasks[t].name \in DOMAIN files)

\* One call downloaded a report and a later call for the same name skipped it.
C6_Witness ==
  \E t, u \in 1..Len(tasks) :
    /\ tasks[t].name = tasks[u].name
    /\ tasks[t].st = "ok" /\ tasks[t].calls = 1
    /\ tasks[u].st = "skipped" /\ tasks[u].calls = 0

\* C7: collect calls for the same name do not exclude one another: a call
\* that finds the file absent starts its download also while another call
\* for that name is downloading, and every download that ends well leaves
\* the file as its own write (the last write wins).
SameNameInFlight(t) ==
  \E u \in 1..Len(tasks) :
    u # t /\ tasks[u].name = tasks[t].name /\ tasks[u].st = "connecting"

C7_NoMutualExclusion ==
  [][\A t \in 1..Len(tasks) :
       /\ (/\ tasks[t].st = "idle" /\ tasks'[t].st # "idle"
           /\ tasks[t].name \notin DOMAIN files
           /\ SameNameInFlight(t))
            => tasks'[t].st = "connecting"
       /\ (tasks[t].st = "writing" /\ tasks'[t].st = "ok")
            => files'[tasks[t].name] = File(tasks[t].url, TRUE, t)]_vars

\* Two calls for one name both downloaded; the file is the write of one.
C7_Witness ==
  \E t, u \in 1..Len(tasks) :
    /\ t # u
    /\ tasks[t].name = tasks[u].name
    /\ tasks[t].st = "ok" /\ tasks[t].calls = 1
    /\ tasks[u].st = "ok" /\ tasks[u].calls = 1
    /\ files[tasks[t].name].complete
    /\ files[tasks[t].name].by = u

\* C8: a page fetch whose response status is not success (urlopen raises
\* HTTPError, or returns a status other than 200) ends in ParserError.
NonSuccess(r) == r.raised = "HTTPError" \/ (r.raised = "none" /\ r.code # HTTP_OK)

C8_NonSuccessIsParserError ==
  \A i \in 1..NumPages :
    (fetch[i].st \in {"reading", "ok", "err"} /\ NonSuccess(fetch[i].resp))
      => (fetch[i].st = "err" /\ fetch[i].exc = "ParserError")

\* C9: a download that fails at the transport level fails with ParserError.
C9_DownloadFailureIsParserError ==
  \A t \in 1..Len(tasks) : tasks[t].st = "err" => tasks[t].exc = "ParserError"

\* C10: the import adds to the store either nothing or every instrument that
\* parsing the directory yields, and an import that fails adds nothing.
Patterns == {"*", "*.xls"}

Called == output # NoCall
Sentinel(cell) == ~cell.num /\ cell.str \in ROWS_TO_SKIP
Skipped(row) == Sentinel(row[2]) \/ Sentinel(row[Len(row)])
KeptRows(sheet) == SelectSeq(sheet, LAMBDA row : ~Skipped(row))

\* C11: for a sheet that parses, a row yields no record when its second cell
\* or its last cell is a sentinel, every other row yields one record, in row
\* order; skipped rows plus records make up the rows of the sheet.
C11_SkipEitherSentinel ==
  (Called /\ output.exc = "none")
    => LET kept == KeptRows(input)
           skipped == { r \in 1..Len(input) : Skipped(input[r]) }
       IN /\ Len(output.value) = Len(kept)
          /\ \A k \in 1..Len(kept) :
                /\ output.value[k].exchange_product_id = kept[k][2].str
                /\ output.value[k].exchange_product_name = kept[k][3]
          /\ Cardinality(skipped) + Len(output.value) = Len(input)

\* A parsed sheet with a row skipped for its second cell alone, a row skipped
\* for its last cell alone, and a record after them.
C11_Witness ==
  /\ Called /\ output.exc = "none"
  /\ Len(output.value) = 1
  /\ ~Skipped(input[Len(input)])
  /\ \E r \in 1..Len(input) : Sentinel(input[r][2]) /\ ~Sentinel(input[r][Len(input[r])])
  /\ \E r \in 1..Len(input) : ~Sentinel(input[r][2]) /\ Sentinel(input[r][Len(input[r])])

\* The files of a directory that parse, and the directory whose one file
\* that does not parse is x.
ValidDocs == {"a.xls", "b.xls", "notes.txt"}
NameOf(x) == report_name(DocFile(x).url)
OnlyDefect(x) ==
  /\ NameOf(x) \in DOMAIN input
  /\ \A n \in DOMAIN input : n = NameOf(x) \/ n[Len(n)] \in ValidDocs

MalformedDateDocs == {"nocolon.xls", "baddate.xls", "norow.xls"}

\* C12: a document whose header date cell is malformed (no ':', no date
\* after the ':', or no such row) makes the batch raise ParserError and
\* return no record, whatever valid documents are with it.
C12_MalformedDateIsParserError ==
  \A x \in MalformedDateDocs :
    (Called /\ OnlyDefect(x)) => (output.exc = "ParserError" /\ output.value = <<>>)

BadNumberDocs == {"badvolume.xls", "badtotal.xls", "badcount.xls"}

\* C13: a row that is not skipped and has a volume, total or count that is
\* no number makes the batch raise ParserError for the row, and no record is
\* returned.
C13_BadNumberNamesRow ==
  \A x \in BadNumberDocs :
    (Called /\ OnlyDefect(x))
      => (output.exc = "ParserError" /\ output.value = <<>> /\ output.item.kind = "row")

\* C13, amended: such a row makes the batch raise ParserError(sheet, cause),
\* carrying the sheet of the document and the ValueError of float(); no
\* record is returned, of this document or of any other.
C13_BadNumberNamesSheet ==
  \A x \in BadNumberDocs :
    (Called /\ OnlyDefect(x)) => output = ParserError(SheetItem(NameOf(x)), "ValueError")

\* The batch failed on badvolume.xls, which has a record before the row and
\* one after it, in a directory with a valid document.
C13_Witness ==
  /\ Called
  /\ OnlyDefect("badvolume.xls")
  /\ NameOf("a.xls") \in DOMAIN input
  /\ output.exc = "ParserError"

OpenFailureDocs == {"cut.xls", "html.xls", "locked.xls", "nosheets.xls"}

\* C14: every failure to open a matching document or to read its first
\* sheet reaches the caller as ParserError(item, cause), item the path.
C14_OpenFailureIsParserError ==
  \A x \in OpenFailureDocs :
    (Called /\ OnlyDefect(x))
      => (output.exc = "ParserError" /\ output.item = PathItem(NameOf(x)))

\* C17: a record whose product code has 7 characters or more has the first
\* four as oil_id, the fifth to the seventh as delivery_basis_id and the last
\* as delivery_type_id; the records of one document have one trade date.
C17_CodeSlices ==
  (Called /\ output.exc = "none")
    => /\ \A k \in 1..Len(output.value) :
            LET r == output.value[k]
                code == r.exchange_product_id
            IN Len(code) >= 7
                 => /\ r.oil_id = SubSeq(code, 1, 4)
                    /\ r.delivery_basis_id = SubSeq(code, 5, 7)
                    /\ r.delivery_type_id = <<code[Len(code)]>>
       /\ \A k, l \in 1..Len(output.value) : output.value[k].date = output.value[l].date

\* Two records of one sheet, with codes of 8 and of 7 characters.
C17_Witness ==
  /\ Called /\ output.exc = "none"
  /\ \E k, l \in 1..Len(output.value) :
        /\ Len(output.value[k].exchange_product_id) = 8
        /\ Len(output.value[l].exchange_product_id) = 7
        /\ output.value[k].date = "14.07.2023"

\* ---- claims about the extractor

ListOfLines == input.data.type = "list" /\ input.data.elem = "str"
Extracted == Called /\ input.fn = "get_urls_from_retrieved_data"
HasHref(line) == re_search(line) # <<0, 0>>
BeforeQuery(url) ==
  IF \E i \in 1..Len(url) : url[i] = M
    THEN SubSeq(url, 1, (CHOOSE i \in 1..Len(url) :
                           url[i] = M /\ \A j \in 1..(i - 1) : url[j] # M) - 1)
    ELSE url

\* C15: for a list of lines the extractor returns one URL for each line with
\* an href match, in the order of the lines and with duplicates kept: the
\* captured value up to its first '?', after the site origin when
\* site_prefix is set; no matching line gives the empty list and no error.
C15_ExtractPerMatchingLine ==
  (Extracted /\ ListOfLines)
    => LET matching == SelectSeq(input.data.items, HasHref)
           origin == IF input.site_prefix THEN Site ELSE <<>>
       IN /\ output.exc = "none"
          /\ Len(output.value) = Len(matching)
          /\ \A k \in 1..Len(matching) :
                output.value[k] = origin \o BeforeQuery(group1(matching[k]))

\* The same line, with a query string, at every position of the list: one
\* URL per line comes back, all equal, the query string cut off.
C15_Witness ==
  /\ Extracted /\ ListOfLines
  /\ Len(input.data.items) = MaxLines
  /\ \A k \in 1..MaxLines : input.data.items[k] = LineA
  /\ Len(output.value) = MaxLines
  /\ output.value[1] = Site \o <<PATH, "a.xls">>

\* C26: every URL that fetch_and_parse_data returns for a page contains the
\* report path, also for a line of the page with several href attributes.
C26_DiscoveredUrlsAreReports ==
  (Called /\ input.fn = "fetch_and_parse_data")
    => \A k \in 1..Len(output.value) : Contains(output.value[k], PATH)

SequenceOfStrings == input.data.type \in {"list", "tuple"} /\ input.data.elem = "str"

\* C16: an input that is no sequence of strings raises the invalid-input
\* error (a TypeError-class error) and no URL is returned; every sequence of
\* strings is accepted.
C16_SequencesAccepted ==
  Called
    => IF SequenceOfStrings THEN output.exc = "none"
       ELSE output.exc \in {"InvalidDataException", "TypeError"} /\ output.value = <<>>

\* C16, amended: an input that is no list raises InvalidDataException, a
\* tuple of strings included, and no URL is returned; every list of strings
\* is accepted.
C16_ListsAccepted ==
  Called
    => /\ input.data.type # "list" => output = Raise("InvalidDataException")
       /\ ListOfLines => output.exc = "none"

\* A tuple of lines, one of them with a link, was refused.
C16_Witness ==
  /\ Called
  /\ input.data.type = "tuple" /\ input.data.elem = "str"
  /\ \E k \in 1..Len(input.data.items) : HasHref(input.data.items[k])
  /\ output.exc = "InvalidDataException"

\* ---- claims about the concurrent batches

\* What page task i returned, as the gather recorded it on completion.
Returned_by(i) ==
  fetchDone[CHOOSE d \in 1..Len(fetchDone) : fetchDone[d][1] = i][2]

\* C18: the URL lists of the pages are collected in the order the page tasks
\* were issued, whatever order the fetches complete in, and the downloads
\* are created from that sequence.
C18_ResultsInIssueOrder ==
  InStages("Download")
    => /\ Len(result) = NumPages
       /\ \A k \in 1..NumPages : result[k] = Returned_by(k)
       /\ [t \in 1..Len(tasks) |-> tasks[t].url]
            = Flatten([k \in 1..NumPages |-> Returned_by(k)])

\* The page issued last completed first, and the pages list different URLs.
C18_Witness ==
  /\ phase = "Download"
  /\ fetchDone[1][1] = NumPages
  /\ result[1] # <<>>
  /\ result[NumPages] # <<>>
  /\ result[1] # result[NumPages]

\* C19: no blocking network operation of a page fetch (opening the URL,
\* reading the body) runs on the thread of the event loop.
C19_FetchNeverBlocksLoop ==
  \A i \in 1..NumPages : fetch[i].st \in {"opening", "reading"} => loopBusy # i

\* The run has ended and no thread has anything left to do.
AtRest == Ended /\ ~ENABLED Next

DownloadOver(t) ==
  /\ tasks[t].st \in {"ok", "err", "skipped"}
  /\ tasks[t].st = "ok"
       => /\ tasks[t].name \in DOMAIN files
          /\ files[tasks[t].name].by = t => files[tasks[t].name].complete

\* C20: when a task of a batch fails its exception surfaces at the join, and
\* every sibling that had started runs to completion: no run comes to rest
\* with a started page fetch or download short of its end.
C20_SiblingsRunToCompletion ==
  AtRest
    => /\ \A t \in 1..Len(tasks) : DownloadOver(t)
       /\ \A i \in 1..NumPages : fetch[i].st \in {"ok", "err"}

\* C20, amended: the exception of the failed task surfaces at the join and
\* the worker threads of its siblings run to their end: a started download
\* finishes writing its file, a started urlopen returns; nothing of the
\* batch is passed on.  The page task of a sibling does not go on to read
\* its page once entrypoint has ended.
C20_SiblingThreadsRunOn ==
  /\ (phase = "Failed" /\ stages = <<"Discovery">>)
       => error = gather_exception(fetchDone) /\ result = <<>> /\ tasks = <<>>
  /\ (phase = "Failed" /\ stages = <<"Discovery", "Download">>)
       => error = tasks[firstFailed].exc /\ store = <<>>
  /\ AtRest
       => /\ \A t \in 1..Len(tasks) : DownloadOver(t)
          /\ \A i \in 1..NumPages : fetch[i].st \in {"opened", "ok", "err"}
  /\ \A i \in 1..NumPages :
        (phase = "Failed" /\ fetch[i].st \in {"opening", "opened"})
          => ~ENABLED (fetch_data_resume(i) \/ fetch_and_parse_data_finish(i))

\* The join has raised while a sibling download was writing its file.
C20_Witness ==
  /\ phase = "Failed"
  /\ stages = <<"Discovery", "Download">>
  /\ \E t \in 1..Len(tasks) : t # firstFailed /\ tasks[t].st = "writing"

\* ---- claims about partial downloads

\* The file of the name is there and was cut short.
Partial(fs, name) == name \in DOMAIN fs /\ ~fs[name].complete

\* C25: a download that fails with the target partly written leaves the
\* file in REPORTS_DIR, and collect_reports for a name whose file is there,
\* partly written, starts no download and leaves the file as it is.
C25_PartialFileStaysAndIsSkipped ==
  /\ [](\A t \in 1..Len(tasks) :
          tasks[t].exc = "ContentTooShortError"
            => Partial(files, tasks[t].name))
  /\ [][\A t \in 1..Len(tasks) :
          (collect_reports_start(t) /\ Partial(files, tasks[t].name))
            => /\ tasks'[t].st = "skipped"
               /\ tasks'[t].calls = 0
               /\ files' = files]_vars

\* A collect skipped for the file that a failed download of this run left.
C25_Witness ==
  \E t, u \in 1..Len(tasks) :
    /\ tasks[t].exc = "ContentTooShortError"
    /\ tasks[u].st = "skipped"
    /\ tasks[u].name = tasks[t].name
    /\ Partial(files, tasks[u].name)
    /\ files[tasks[u].name].by = t

\* ---- claims about the linked list

\* The nodes of l from head along next, and l as add_obj builds it from
\* fresh nodes: the walk ends at tail, and prev leads back.
RECURSIVE nodes_from(_, _, _)
nodes_from(l, current, steps) ==
  IF current = NoNode \/ steps = 0 THEN <<>>
  ELSE <<current>> \o nodes_from(l, l.next[current], steps - 1)

BuiltByAdds(l) ==
  LET w == nodes_from(l, l.head, MaxNodes)
  IN /\ (w = <<>>) = (l.tail = NoNode)
     /\ w # <<>> => /\ l.tail = w[Len(w)]
                    /\ l.next[l.tail] = NoNode
                    /\ l.prev[w[1]] = NoNode
                    /\ \A k \in 2..Len(w) : l.prev[w[k]] = w[k - 1]

\* C21: remove_obj on a list built by add_obj of n >= 1 fresh nodes returns
\* normally and leaves the contents without their last element (head and
\* tail None when n = 1); on an empty list it changes nothing.
C21_RemoveDropsLast ==
  (input.fn = "remove_obj" /\ BuiltByAdds(input.self))
    => LET before == get_data(input.self)
       IN /\ output.exc = "none"
          /\ before = <<>> => lst = input.self
          /\ before # <<>> => get_data(lst) = SubSeq(before, 1, Len(before) - 1)
          /\ Len(before) = 1 => (lst.head = NoNode /\ lst.tail = NoNode)

\* ---- claims about the local network

\* C22: unlink of a server the router has linked returns normally and leaves
\* the server out of the router's linked_servers with connected_to None, so
\* that link accepts it again; unlink of a server linked to no router raises
\* RuntimeError and changes nothing.
C22_UnlinkRemovesLink ==
  input.fn = "unlink"
    => LET before == input.self
           after == link(net, input.router, input.server)
       IN IF before.connected_to[input.server] = None
            THEN output.exc = "RuntimeError" /\ net = before
          ELSE input.server \in before.linked_servers[input.router]
                 => /\ output.exc = "none"
                    /\ input.server \notin net.linked_servers[input.router]
                    /\ net.connected_to[input.server] = None
                    /\ after.exc = "none"

\* The linked servers of a router that a package is for.
Receivers(n, router, package) ==
  { s \in n.linked_servers[router] : n.ip[s] = package.ip }

Delivered(n, router, server) ==
  SelectSeq(n.router_buffer[router],
            LAMBDA package : server \in Receivers(n, router, package))

\* C23: Router.send_data appends the packages of the router's buffer, in
\* the order of the buffer, to the linked server with the package's ip, to
\* at most one server each and to nobody when no linked server has the ip,
\* and empties the router's buffer; Server.get_data returns the packages
\* the server holds and empties its buffer.
C23_DeliveryByIp ==
  /\ input.fn = "Router.send_data"
       => LET before == input.self
          IN /\ output.exc = "none"
             /\ net.router_buffer[input.router] = <<>>
             /\ \A s \in Servers :
                  net.buffer[s] =
                    before.buffer[s] \o Delivered(before, input.router, s)
             /\ \A k \in 1..Len(before.router_buffer[input.router]) :
                  Cardinality(Receivers(before, input.router,
                                before.router_buffer[input.router][k])) <= 1
  /\ input.fn = "Server.get_data"
       => /\ output = Return(input.self.buffer[input.server])
          /\ net.buffer[input.server] = <<>>
          /\ \A s \in Servers \ {input.server} :
               net.buffer[s] = input.self.buffer[s]

\* Two different packages sent on by a router and read by their server.
C23_Witness ==
  /\ input.fn = "Server.get_data"
  /\ Len(output.value) = 2
  /\ output.value[1] # output.value[2]

\* C24: the servers made have addresses in 1..255, no two the same; Server()
\* raises IpAddressGenerationError exactly when IP_GENERATION_MAX_RETRIES
\* draws in a row hit assigned addresses, and then assigns no address.
C24_UniqueIp ==
  /\ \A s \in 1..net.made :
       /\ net.ip[s] \in IpRange
       /\ net.ip[s] \in net.assigned_ips
       /\ \A t \in 1..net.made : s # t => net.ip[s] # net.ip[t]
  /\ input.fn = "Server"
       => /\ (output.exc = "IpAddressGenerationError")
               = (input.hits = IP_GENERATION_MAX_RETRIES)
          /\ output.exc \in {"none", "IpAddressGenerationError"}
          /\ output.exc = "none"
               => /\ net.made = input.self.made + 1
                  /\ net.ip[net.made] \notin input.self.assigned_ips
          /\ output.exc # "none" => net = input.self

\* A construction that failed after a server had taken an address.
C24_Witness ==
  /\ input.fn = "Server"
  /\ output.exc = "IpAddressGenerationError"
  /\ input.self.made >= 1

\* C27: a server is in a router's linked_servers exactly when its
\* connected_to is that router, and it is in at most one router's
\* linked_servers.
C27_LinkedIffConnected ==
  \A s \in Servers :
    /\ \A r \in Routers :
         (s \in net.linked_servers[r]) = (net.connected_to[s] = r)
    /\ Cardinality({ r \in Routers : s \in net.linked_servers[r] }) <= 1

\* ---- claims about the game

Inside(p, x_pos, y_pos) ==
  x_pos \in 0..(p.size - 1) /\ y_pos \in 0..(p.size - 1)

\* C28: reveal_cell with a coordinate outside 0..size-1, negative ones
\* included, raises ValueError and changes nothing; with coordinates inside
\* it raises CellAlreadyRevealedException and changes nothing when the cell
\* is open, and otherwise opens that cell and no other, raising
\* GameOverException when it is a mine; no open cell is closed.
C28_RevealCell ==
  input.fn = "reveal_cell"
    => LET before == input.self
           x == input.x_pos + 1
           y == input.y_pos + 1
       IN IF ~Inside(before, input.x_pos, input.y_pos)
            THEN output.exc = "ValueError" /\ pole = before
          ELSE IF before.cells[x][y].is_open
            THEN output.exc = "CellAlreadyRevealedException" /\ pole = before
          ELSE /\ pole = [before EXCEPT !.cells[x][y].is_open = TRUE]
               /\ output.exc = IF before.cells[x][y].mine
                                  THEN "GameOverException" ELSE "none"

\* The offsets of the up to 8 cells around a cell.
Neighbours == offsets \ {<<0, 0>>}

\* The mines among the cells around cell (x, y) of p, the cell itself
\* not counted.
MinesAround(p, x, y) ==
  Cardinality({ d \in Neighbours :
                  /\ x + d[1] \in 1..p.size
                  /\ y + d[2] \in 1..p.size
                  /\ p.cells[x + d[1]][y + d[2]].mine })

\* C29: a game of size s made with m <= s*s mines has exactly m mine cells,
\* and around_mines of every cell is the number of mines among the cells
\* around it.
C29_MinesAndCounts ==
  pole # NoPole
    => /\ Cardinality({ c \in (1..pole.size) \X (1..pole.size) :
                          pole.cells[c[1]][c[2]].mine }) = pole.mines_count
       /\ \A x, y \in 1..pole.size :
            pole.cells[x][y].around_mines = MinesAround(pole, x, y)

====
